---- MODULE Spec2Model ----
(***************************************************************************)
(* Model of server.js, the OpenAI -> NVIDIA NIM proxy: the handler of      *)
(* POST /v1/chat/completions (model mapping, parameter normalisation, the   *)
(* single upstream call, the JSON reshape, the stream relay and the catch   *)
(* block that builds the error envelope).                                   *)
(*                                                                          *)
(* Conventions.  A JavaScript object is a function over the names of the    *)
(* properties it has; an absent property (undefined) is a name outside      *)
(* DOMAIN.  Temperatures are counted in tenths (0.7 is 7).                  *)
(***************************************************************************)
EXTENDS Integers, Sequences, FiniteSets, TLC

\* ------------------------------------------------------------------ bounds
NumReqs == 2          \* requests handled concurrently (SpecConcurrent)
MaxChunks == 2        \* chunks an upstream stream produces (Spec)
MaxChunksConc == 1    \* chunks an upstream stream produces (SpecConcurrent)
MaxTokensTop == 4098  \* largest max_tokens a caller sends (SpecTranslate)
MaxTemperature == 12  \* largest temperature a caller sends, in tenths

Reqs == 1..NumReqs

\* --------------------------------------------------------- program constants
NIM_API_BASE == "https://integrate.api.nvidia.com/v1"

ModelMap ==
    ("gpt-3.5-turbo" :> "meta/llama-3.1-8b-instruct")
 @@ ("gpt-4" :> "meta/llama-3.1-70b-instruct")
 @@ ("gpt-4-turbo" :> "meta/llama-3.1-70b-instruct")
 @@ ("gpt-4o" :> "deepseek-ai/deepseek-v2-chat")
 @@ ("claude-3-opus" :> "meta/llama-3.1-405b-instruct")
 @@ ("claude-3-sonnet" :> "meta/llama-3.1-70b-instruct")
 @@ ("gemini-pro" :> "google/gemini-pro")

DEFAULT_MODEL == "meta/llama-3.1-8b-instruct"
MAX_TOKENS_THRESHOLD == 256
MAX_TOKENS_FLOOR == 4096
DEFAULT_TEMPERATURE == 7
DEFAULT_ERROR_STATUS == 500
FALLBACK_MESSAGE == "An internal server error occurred."

\* MODEL_MAPPING is an object literal, so MODEL_MAPPING[model] also finds the
\* properties every object inherits from Object.prototype.  They are functions
\* (or, for __proto__, the prototype object): all truthy.
ObjectPrototype ==
    ("constructor" :> "function Object")
 @@ ("toString" :> "function toString")
 @@ ("valueOf" :> "function valueOf")
 @@ ("hasOwnProperty" :> "function hasOwnProperty")
 @@ ("__proto__" :> "object Object.prototype")

VARIABLES
    MODEL_MAPPING,  \* the mapping table of the process
    NIM_API_KEY,    \* the upstream credential of the process
    state,          \* per request: idle, pending, resolved, failed, unhandled
    body,           \* per request: req.body
    outbound,       \* per request: the sequence of axios.post calls issued
    upstream,       \* per request: what the upstream call came back with
    responses,      \* per request: the sequence of responses started on res
    received,       \* per request: bytes the upstream stream has produced
    delivered,      \* per request: bytes written to res by the pipe
    upstreamStream, \* per request: none, open, ended, errored
    resEnded,       \* per request: res.end() was called by the pipe
    rejectionAnswered \* the framework answers a handler that rejected

vars == <<MODEL_MAPPING, NIM_API_KEY, state, body, outbound, upstream,
          responses, received, delivered, upstreamStream, resEnded,
          rejectionAnswered>>

\* What request handling never assigns.
config == <<MODEL_MAPPING, NIM_API_KEY, rejectionAnswered>>

Has(obj, f) == f \in DOMAIN obj

\* ------------------------------------------------------ request translation
\* const { model, ... } = req.body; used as a property key, undefined is the
\* string "undefined".
ModelKey(b) == IF Has(b, "model") THEN b.model ELSE "undefined"

\* Variant: the lookup is skipped while another request is in flight.
NimModelShared(mapping, b) ==
    IF \E r \in Reqs : state[r] = "pending"
    THEN DEFAULT_MODEL
    ELSE IF ModelKey(b) \in DOMAIN mapping THEN mapping[ModelKey(b)]
    ELSE DEFAULT_MODEL

\* MODEL_MAPPING[model]: own property, else inherited, else undefined.
NimModel(mapping, b) ==
    LET key == ModelKey(b) IN
    IF key \in DOMAIN mapping THEN mapping[key]
    ELSE IF key \in DOMAIN ObjectPrototype THEN ObjectPrototype[key]
    ELSE DEFAULT_MODEL

\* Variant: the threshold itself passes (>= for >).
effective_max_tokens_geq(b) ==
    IF Has(b, "max_tokens") /\ b.max_tokens # 0
       /\ b.max_tokens >= MAX_TOKENS_THRESHOLD
    THEN b.max_tokens
    ELSE MAX_TOKENS_FLOOR

effective_max_tokens(b) ==
    IF Has(b, "max_tokens") /\ b.max_tokens # 0
       /\ b.max_tokens > MAX_TOKENS_THRESHOLD
    THEN b.max_tokens
    ELSE MAX_TOKENS_FLOOR

\* Variant: only an absent temperature is defaulted (?? for ||).
NimTemperatureNullish(b) ==
    IF Has(b, "temperature") THEN b.temperature ELSE DEFAULT_TEMPERATURE

NimTemperature(b) ==
    IF Has(b, "temperature") /\ b.temperature # 0
    THEN b.temperature
    ELSE DEFAULT_TEMPERATURE

StreamFlag(b) == Has(b, "stream") /\ b.stream

nimRequest(mapping, b) ==
    [model |-> NimModel(mapping, b),
     messages |-> b.messages,
     temperature |-> NimTemperature(b),
     max_tokens |-> effective_max_tokens(b),
     stream |-> StreamFlag(b)]

nimHeaders(key) ==
    [Authorization |-> <<"Bearer", key>>, ContentType |-> "application/json"]

ResponseType(b) == IF StreamFlag(b) THEN "stream" ELSE "json"

AxiosPost(mapping, key, b) ==
    [url |-> <<NIM_API_BASE, "/chat/completions">>,
     data |-> nimRequest(mapping, b),
     headers |-> nimHeaders(key),
     responseType |-> ResponseType(b)]

Init ==
    /\ MODEL_MAPPING = ModelMap
    /\ NIM_API_KEY = "nvapi-key"
    /\ state = [r \in Reqs |-> "idle"]
    /\ body = [r \in Reqs |-> [messages |-> <<>>]]
    /\ outbound = [r \in Reqs |-> <<>>]
    /\ upstream = [r \in Reqs |-> [kind |-> "none"]]
    /\ responses = [r \in Reqs |-> <<>>]
    /\ received = [r \in Reqs |-> <<>>]
    /\ delivered = [r \in Reqs |-> <<>>]
    /\ upstreamStream = [r \in Reqs |-> "none"]
    /\ resEnded = [r \in Reqs |-> FALSE]
    /\ rejectionAnswered \in BOOLEAN

\* The handler up to the await: destructure the body, build the outbound
\* request and issue the one axios.post.
HandleRequest(r, b) ==
    /\ state[r] = "idle"
    /\ body' = [body EXCEPT ![r] = b]
    /\ outbound' = [outbound EXCEPT
           ![r] = Append(@, AxiosPost(MODEL_MAPPING, NIM_API_KEY, b))]
    /\ state' = [state EXCEPT ![r] = "pending"]
    /\ UNCHANGED <<config, upstream, responses, received,
                   delivered, upstreamStream, resEnded>>

\* ------------------------------------------------------- the upstream's reply
\* axios resolves for a 2xx status and rejects for any other.
IsOk(status) == status >= 200 /\ status < 300

\* response.data / error.response.data: the parsed body with responseType
\* 'json', the open response stream with responseType 'stream'.  The stream
\* is the raw incoming message (which refers to its socket, which refers back
\* to it) unless the reply is encoded and a decoder stands in front of it.
ResponseData(responseType, payload, raw) ==
    IF responseType = "stream"
    THEN [type |-> "stream", circular |-> raw]
    ELSE payload

\* The errors the try block can throw.
NetworkError(m) == [message |-> m]

StatusError(status, data) ==
    [message |-> "Request failed with status code",
     response |-> [status |-> status, data |-> data]]

TypeError == [message |-> "Cannot read properties of undefined"]

\* response.data.choices.map(choice => ... choice.message.role ...) completes
\* when choices is there and every choice has a message.
Reshapable(data) ==
    /\ Has(data, "choices")
    /\ \A i \in DOMAIN data.choices : Has(data.choices[i], "message")

ReshapeChoice(choice) ==
    [index |-> choice.index,
     message |-> [role |-> choice.message.role,
                  content |-> choice.message.content],
     finish_reason |-> choice.finish_reason]

\* Variant: the success response reports the resolved upstream model.
ResponseModelResolved(b, sent) == sent.model

\* The model field of the success response: model, as destructured.
ResponseModel(b, sent) == b.model

\* res.json({...}) of the non-streaming branch.
Reshape(b, sent, data) ==
    LET common ==
            [id |-> IF Has(data, "id") THEN data.id ELSE "chatcmpl-now",
             object |-> "chat.completion",
             created |-> IF Has(data, "created") THEN data.created ELSE "now",
             choices |-> [i \in DOMAIN data.choices |->
                             ReshapeChoice(data.choices[i])],
             usage |-> data.usage]
    IN [kind |-> "json", status |-> 200,
        body |-> IF Has(b, "model")
                 THEN common @@ [model |-> ResponseModel(b, sent)]
                 ELSE common]

EventStreamHeaders ==
    {<<"Content-Type", "text/event-stream">>,
     <<"Cache-Control", "no-cache">>,
     <<"Connection", "keep-alive">>}

\* ---------------------------------------------------------- the catch block
\* JSON.stringify(error.response.data, null, 2) of the logging throws a
\* TypeError on a circular structure.
StringifyThrows(data) == data.type = "stream" /\ data.circular

CatchThrows(error) ==
    Has(error, "response") /\ StringifyThrows(error.response.data)

\* Variant: a failure without a response is reported as a bad gateway.
ErrorStatusBadGateway(error) ==
    IF Has(error, "response") /\ error.response.status # 0
    THEN error.response.status
    ELSE 502

\* error.response?.status || 500
ErrorStatus(error) ==
    IF Has(error, "response") /\ error.response.status # 0
    THEN error.response.status
    ELSE DEFAULT_ERROR_STATUS

\* error.response?.data?.error?.message || error.message || fallback
ErrorMessage(error) ==
    IF /\ Has(error, "response")
       /\ Has(error.response.data, "error")
       /\ Has(error.response.data.error, "message")
       /\ error.response.data.error.message # ""
    THEN error.response.data.error.message
    ELSE IF error.message # "" THEN error.message
    ELSE FALLBACK_MESSAGE

ErrorEnvelope(error) ==
    LET e == [message |-> ErrorMessage(error), type |-> "proxy_error"] IN
    [kind |-> "error_envelope",
     status |-> ErrorStatus(error),
     body |-> [error |-> IF Has(error, "response")
                         THEN e @@ [code |-> error.response.status]
                         ELSE e]]

\* Variant: the catch block issues the call once more.
CatchCallsRetry(calls) == Append(calls, calls[1])

\* Upstream calls issued by the catch block: none.
CatchCalls(calls) == calls

\* catch (error) { ... }.  When the block itself throws, the async handler
\* rejects: depending on the framework the process runs on, the request is
\* left unanswered or answered with the framework's own error page, never
\* with the envelope.
Catch(r, error) ==
    /\ outbound' = [outbound EXCEPT ![r] = CatchCalls(@)]
    /\ IF CatchThrows(error)
       THEN /\ state' = [state EXCEPT ![r] = "unhandled"]
            /\ responses' = [responses EXCEPT ![r] =
                   IF rejectionAnswered
                   THEN Append(@, [kind |-> "framework_error",
                                   status |-> DEFAULT_ERROR_STATUS])
                   ELSE @]
       ELSE /\ state' = [state EXCEPT ![r] = "failed"]
            /\ responses' = [responses EXCEPT
                                ![r] = Append(@, ErrorEnvelope(error))]
    /\ UNCHANGED <<config, body, received, delivered,
                   upstreamStream, resEnded>>

\* --------------------------------------- the handler after the await returns
\* axios.post rejects without a response (the upstream was not reached).
TransportFailure(r, m) ==
    /\ state[r] = "pending"
    /\ upstream' = [upstream EXCEPT
                       ![r] = [kind |-> "transport", message |-> m]]
    /\ Catch(r, NetworkError(m))

\* axios.post rejects with the upstream's non-2xx response.
UpstreamError(r, status, payload, raw) ==
    /\ state[r] = "pending"
    /\ ~IsOk(status)
    /\ StreamFlag(body[r]) \/ raw
    /\ upstream' = [upstream EXCEPT ![r] =
           [kind |-> "http", status |-> status, payload |-> payload,
            raw |-> raw]]
    /\ Catch(r, StatusError(status,
                            ResponseData(ResponseType(body[r]), payload, raw)))

\* 2xx, non-streaming branch: reshape and res.json, or the reshape throws.
JsonReply(r, status, payload) ==
    /\ state[r] = "pending"
    /\ IsOk(status)
    /\ ~StreamFlag(body[r])
    /\ upstream' = [upstream EXCEPT ![r] =
           [kind |-> "http", status |-> status, payload |-> payload,
            raw |-> TRUE]]
    /\ IF Reshapable(payload)
       THEN /\ state' = [state EXCEPT ![r] = "resolved"]
            /\ responses' = [responses EXCEPT ![r] =
                   Append(@, Reshape(body[r], outbound[r][1].data, payload))]
            /\ UNCHANGED <<config, body, outbound,
                           received, delivered, upstreamStream, resEnded>>
       ELSE Catch(r, TypeError)

\* 2xx, streaming branch: the three setHeader calls, then pipe.
StreamReply(r, status) ==
    /\ state[r] = "pending"
    /\ IsOk(status)
    /\ StreamFlag(body[r])
    /\ upstream' = [upstream EXCEPT ![r] =
           [kind |-> "http", status |-> status,
            payload |-> [type |-> "stream"], raw |-> TRUE]]
    /\ state' = [state EXCEPT ![r] = "resolved"]
    /\ responses' = [responses EXCEPT ![r] =
           Append(@, [kind |-> "event_stream", status |-> 200,
                      headers |-> EventStreamHeaders])]
    /\ upstreamStream' = [upstreamStream EXCEPT ![r] = "open"]
    /\ UNCHANGED <<config, body, outbound, received,
                   delivered, resEnded>>

\* ------------------------------------------------- response.data.pipe(res)
\* The upstream stream produces one more chunk.
UpstreamData(r, chunk, max) ==
    /\ upstreamStream[r] = "open"
    /\ Len(received[r]) < max
    /\ received' = [received EXCEPT ![r] = Append(@, chunk)]
    /\ UNCHANGED <<config, state, body, outbound, upstream,
                   responses, delivered, upstreamStream, resEnded>>

\* Variant: the pipe writes the newest chunk it holds.
PipeChunkNewest(recv, del) == recv[Len(recv)]

\* The chunk the pipe writes next: the oldest one not yet written.
PipeChunk(recv, del) == recv[Len(del) + 1]

\* pipe: on 'data', res.write(chunk).
PipeWrite(r) ==
    /\ upstreamStream[r] \in {"open", "ended"}
    /\ Len(delivered[r]) < Len(received[r])
    /\ delivered' = [delivered EXCEPT
                        ![r] = Append(@, PipeChunk(received[r], @))]
    /\ UNCHANGED <<config, state, body, outbound, upstream,
                   responses, received, upstreamStream, resEnded>>

\* The upstream closes its stream.
UpstreamEnd(r) ==
    /\ upstreamStream[r] = "open"
    /\ upstreamStream' = [upstreamStream EXCEPT ![r] = "ended"]
    /\ UNCHANGED <<config, state, body, outbound, upstream,
                   responses, received, delivered, resEnded>>

\* pipe: on 'end' (emitted once every chunk was consumed), res.end().
PipeEnd(r) ==
    /\ upstreamStream[r] = "ended"
    /\ delivered[r] = received[r]
    /\ ~resEnded[r]
    /\ resEnded' = [resEnded EXCEPT ![r] = TRUE]
    /\ UNCHANGED <<config, state, body, outbound, upstream,
                   responses, received, delivered, upstreamStream>>

\* The upstream stream fails after the relay began: pipe neither forwards the
\* failure nor ends res, and the handler's try block is long over.
UpstreamStreamError(r) ==
    /\ upstreamStream[r] = "open"
    /\ upstreamStream' = [upstreamStream EXCEPT ![r] = "errored"]
    /\ UNCHANGED <<config, state, body, outbound, upstream,
                   responses, received, delivered, resEnded>>

\* ------------------------------------------------------------ request bodies
Messages == <<[role |-> "user", content |-> "hi"]>>

OptionalFields(base, f, vals) == {base} \cup {base @@ (f :> v) : v \in vals}

BodiesOver(models, temps, toks, streams) ==
    LET b0 == {[messages |-> Messages]}
        b1 == UNION {OptionalFields(b, "model", models) : b \in b0}
        b2 == UNION {OptionalFields(b, "temperature", temps) : b \in b1}
        b3 == UNION {OptionalFields(b, "max_tokens", toks) : b \in b2}
    IN UNION {OptionalFields(b, "stream", streams) : b \in b3}

TranslateModels ==
    DOMAIN ModelMap \cup {"unknown-model", "", "constructor", "__proto__"}

TranslateTokens ==
    (-1 .. 2) \cup ((MAX_TOKENS_THRESHOLD - 2) .. (MAX_TOKENS_THRESHOLD + 2))
    \cup {2000} \cup ((MAX_TOKENS_FLOOR - 1) .. MaxTokensTop)

TranslateBodies ==
    BodiesOver(TranslateModels, 0 .. MaxTemperature, TranslateTokens, BOOLEAN)

NextTranslate == \E b \in TranslateBodies : HandleRequest(1, b)

SpecTranslate == Init /\ [][NextTranslate]_vars

\* ------------------------------------------------------- upstream behaviours
Choice == [index |-> 0,
           message |-> [role |-> "assistant", content |-> "hello"],
           finish_reason |-> "stop"]

Usage == [total_tokens |-> 3]

Completion ==
    [type |-> "json", id |-> "cmpl-1", created |-> "t0",
     choices |-> <<Choice>>, usage |-> Usage]

Payloads ==
    {Completion,
     [type |-> "json", choices |-> <<Choice>>, usage |-> Usage],
     [type |-> "json", id |-> "cmpl-2", usage |-> Usage],
     [type |-> "json", id |-> "cmpl-3", usage |-> Usage,
      choices |-> <<[index |-> 0, finish_reason |-> "stop"]>>],
     [type |-> "json", error |-> [message |-> "Invalid API key"]],
     [type |-> "json", error |-> [message |-> ""]],
     [type |-> "json", error |-> [type |-> "rate_limit"]],
     [type |-> "text"]}

Statuses == {200, 401, 429, 503}

TransportMessages == {"", "connect ECONNREFUSED"}

Chunks == {"a", "b"}

Bodies ==
    BodiesOver({"gpt-4", "unknown-model"}, {0, 10}, {10, 2000}, BOOLEAN)

\* --------------------------------------------------- one request, start to end
Next ==
    \/ \E b \in Bodies : HandleRequest(1, b)
    \/ \E m \in TransportMessages : TransportFailure(1, m)
    \/ \E s \in Statuses, p \in Payloads, raw \in BOOLEAN :
           UpstreamError(1, s, p, raw)
    \/ \E s \in Statuses, p \in Payloads : JsonReply(1, s, p)
    \/ \E s \in Statuses : StreamReply(1, s)
    \/ \E c \in Chunks : UpstreamData(1, c, MaxChunks)
    \/ PipeWrite(1)
    \/ UpstreamEnd(1)
    \/ PipeEnd(1)
    \/ UpstreamStreamError(1)

Spec == Init /\ [][Next]_vars

\* ------------------------------------------- requests handled concurrently
ConcBodies == BodiesOver({"gpt-4", "unknown-model"}, {}, {}, {TRUE})

ConcPayloads ==
    {Completion, [type |-> "json", error |-> [message |-> "Invalid API key"]]}

NextConcurrent ==
    \E r \in Reqs :
        \/ \E b \in ConcBodies : HandleRequest(r, b)
        \/ TransportFailure(r, "connect ECONNREFUSED")
        \/ \E p \in ConcPayloads, raw \in BOOLEAN :
               UpstreamError(r, 401, p, raw)
        \/ \E p \in ConcPayloads : JsonReply(r, 200, p)
        \/ StreamReply(r, 200)
        \/ UpstreamData(r, "a", MaxChunksConc)
        \/ PipeWrite(r)
        \/ UpstreamEnd(r)
        \/ PipeEnd(r)
        \/ UpstreamStreamError(r)

SpecConcurrent == Init /\ [][NextConcurrent]_vars

\* Relay under the event loop's scheduling: a chunk the pipe holds is written,
\* and the end of the upstream stream is passed on.
SpecRelay == Spec /\ WF_vars(PipeWrite(1)) /\ WF_vars(PipeEnd(1))

\* ===================================================================== claims
Response(r) == responses[r][1]

IsEnvelope(resp) ==
    /\ resp.kind = "error_envelope"
    /\ resp.body.error.type = "proxy_error"

\* The upstream call of r failed, or handling its result did.
Failure(r) ==
    \/ upstream[r].kind = "transport"
    \/ /\ upstream[r].kind = "http"
       /\ \/ ~IsOk(upstream[r].status)
          \/ ~StreamFlag(body[r]) /\ ~Reshapable(upstream[r].payload)

\* C1: every failure of the upstream call or of handling its result leaves the
\* request failed with exactly one response, and that response is an
\* ErrorEnvelope of type proxy_error.
C1_EveryFailureOneEnvelope ==
    \A r \in Reqs :
        Failure(r) =>
            /\ state[r] = "failed"
            /\ Len(responses[r]) = 1
            /\ IsEnvelope(Response(r))

StructuredError(r) ==
    /\ upstream[r].kind = "http"
    /\ upstream[r].status >= 400
    /\ Has(upstream[r].payload, "error")
    /\ Has(upstream[r].payload.error, "message")
    /\ upstream[r].payload.error.message # ""

\* C2: an upstream 4xx/5xx with a body {error: {message}} reaches the caller,
\* whatever the stream flag, as an ErrorEnvelope whose HTTP status and code are
\* the upstream's status and whose message is the upstream's message.
C2_UpstreamErrorSurfaced ==
    \A r \in Reqs :
        StructuredError(r) =>
            /\ Len(responses[r]) = 1
            /\ IsEnvelope(Response(r))
            /\ Response(r).status = upstream[r].status
            /\ Response(r).body.error.code = upstream[r].status
            /\ Response(r).body.error.message =
                 upstream[r].payload.error.message

\* C3: a failure of the upstream call without an upstream response is answered
\* with status 500 and an ErrorEnvelope whose message is not empty: the
\* failure's message when it has one, the generic fallback otherwise.
C3_TransportFailure ==
    \A r \in Reqs :
        upstream[r].kind = "transport" =>
            /\ Len(responses[r]) = 1
            /\ IsEnvelope(Response(r))
            /\ Response(r).status = 500
            /\ Response(r).body.error.message # ""
            /\ Response(r).body.error.message =
                 IF upstream[r].message # "" THEN upstream[r].message
                 ELSE "An internal server error occurred."

C3_Witness ==
    /\ upstream[1].kind = "transport"
    /\ upstream[1].message = ""
    /\ StreamFlag(body[1])
    /\ Len(responses[1]) = 1
    /\ Response(1).status = 500

Sent(r) == outbound[r][1].data

\* C4: the model sent upstream is the mapped value for a key of ModelMap and
\* the default meta/llama-3.1-8b-instruct for every other model string and
\* for an absent model.
C4_ModelResolution ==
    \A r \in Reqs :
        state[r] # "idle" =>
            Sent(r).model =
                IF Has(body[r], "model") /\ body[r].model \in DOMAIN ModelMap
                THEN ModelMap[body[r].model]
                ELSE "meta/llama-3.1-8b-instruct"

\* C5: max_tokens sent upstream is 4096 when the caller's is absent or <= 256,
\* the caller's value when it is > 256, and so always greater than 256.
C5_MaxTokens ==
    \A r \in Reqs :
        state[r] # "idle" =>
            /\ Sent(r).max_tokens =
                 IF Has(body[r], "max_tokens") /\ body[r].max_tokens > 256
                 THEN body[r].max_tokens
                 ELSE 4096
            /\ Sent(r).max_tokens > 256

C5_Witness ==
    /\ state[1] = "pending"
    /\ Has(body[1], "max_tokens")
    /\ body[1].max_tokens = 256
    /\ Sent(1).max_tokens = 4096

\* C6: the temperature sent upstream is 0.7 (7 tenths) when the caller's is
\* absent or falsy (0), the caller's value otherwise.
C6_Temperature ==
    \A r \in Reqs :
        state[r] # "idle" =>
            Sent(r).temperature =
                IF Has(body[r], "temperature") /\ body[r].temperature # 0
                THEN body[r].temperature
                ELSE 7

C6_Witness ==
    /\ state[1] = "pending"
    /\ Has(body[1], "temperature")
    /\ body[1].temperature = 0
    /\ Sent(1).temperature = 7

\* C7: a request causes exactly one upstream call: one is issued before any
\* response, and none is added once the call has succeeded or failed.
C7_ExactlyOneUpstreamCall ==
    \A r \in Reqs :
        /\ Len(outbound[r]) <= 1
        /\ state[r] # "idle" => Len(outbound[r]) = 1
        /\ responses[r] # <<>> => Len(outbound[r]) = 1
        /\ upstream[r].kind # "none" => Len(outbound[r]) = 1

C7_Witness ==
    /\ state[1] = "failed"
    /\ upstream[1].kind = "http"
    /\ Len(responses[1]) = 1
    /\ Len(outbound[1]) = 1

\* C8: the model field of a non-streaming success response is the model the
\* caller sent, for mapped and unmapped names alike.
C8_ModelEchoed ==
    \A r \in Reqs :
        (state[r] = "resolved" /\ ~StreamFlag(body[r])) =>
            /\ Len(responses[r]) = 1
            /\ Response(r).kind = "json"
            /\ Has(body[r], "model") =>
                 /\ Has(Response(r).body, "model")
                 /\ Response(r).body.model = body[r].model

C8_Witness ==
    /\ state[1] = "resolved"
    /\ ~StreamFlag(body[1])
    /\ Has(body[1], "model")
    /\ body[1].model = "gpt-4"
    /\ Response(1).body.model = "gpt-4"
    /\ Sent(1).model = "meta/llama-3.1-70b-instruct"

IsPrefix(s, t) ==
    /\ Len(s) <= Len(t)
    /\ \A i \in 1..Len(s) : s[i] = t[i]

RelaySafe(r) ==
    /\ IsPrefix(delivered[r], received[r])
    /\ (delivered[r] # <<>> \/ resEnded[r]) =>
         /\ Len(responses[r]) = 1
         /\ Response(r).kind = "event_stream"
         /\ {<<"Content-Type", "text/event-stream">>,
             <<"Cache-Control", "no-cache">>,
             <<"Connection", "keep-alive">>} \subseteq Response(r).headers
    /\ resEnded[r] =>
         (upstreamStream[r] = "ended" /\ delivered[r] = received[r])

\* C9: in streaming mode the event-stream headers are set before any byte is
\* sent, the bytes delivered to the caller are at every point a prefix of the
\* bytes received from upstream, and the relay ends when the upstream stream
\* ends: then, and with every byte delivered.
C9_StreamRelay ==
    /\ [](\A r \in Reqs : RelaySafe(r))
    /\ \A r \in Reqs : (upstreamStream[r] = "ended") ~> resEnded[r]

C9_Witness ==
    /\ resEnded[1]
    /\ Len(delivered[1]) = 2
    /\ delivered[1][1] # delivered[1][2]

====
